---- MODULE Spec2Model ----
(***************************************************************************)
(* A model of x-auto-poster (src/src/index.js): the GitHub action that     *)
(* summarises a range of commits into a prompt, asks a completion service  *)
(* for a post and publishes it on X.                                       *)
(*                                                                         *)
(* JavaScript strings are TLA+ strings: Len, \o and SubSeq act on them     *)
(* character by character, so slicing, trimming, splitting and joining     *)
(* are modelled by what they do to the characters.                         *)
(***************************************************************************)
EXTENDS Integers, Sequences, FiniteSets, TLC

VARIABLES
    repo,            \* the git history the action runs in: a sequence of commits, oldest first
    inputs,          \* the action's inputs, as the workflow sets them (strings)
    env,             \* process.env: GITHUB_TOKEN and X_BEARER_TOKEN ("" when absent)
    pc,              \* position of run()
    calls,           \* the collaborator operations invoked so far, in order, with their outcome
    failed,          \* core.setFailed: <<>> or <<message>>
    notice,          \* core.notice: <<>> or <<message>>
    outputs,         \* core.setOutput: the outputs set so far, in order
    summary,         \* core.summary: the job summary written, "" before
    conf,            \* the locals run() derives from its inputs (lines 221-254)
    fromSha,         \* run()'s fromSha
    toSha,           \* run()'s toSha
    commitOrder,     \* run()'s commitOrder
    commitSummaries, \* run()'s commitSummaries, as far as collected
    prompt,          \* run()'s prompt
    generatedPost,   \* run()'s generatedPost
    arg,             \* the argument of a function applied on its own
    ret              \* its result

vars == <<repo, inputs, env, pc, calls, failed, notice, outputs, summary, conf,
          fromSha, toSha, commitOrder, commitSummaries, prompt, generatedPost,
          arg, ret>>

runVars == <<pc, calls, failed, notice, outputs, summary, conf, fromSha, toSha,
             commitOrder, commitSummaries, prompt, generatedPost>>

-----------------------------------------------------------------------------
(* Bounds of the model *)

\* the longest diff text drawn for a commit
MaxDiffLen == 3

\* the longest hashtags input drawn
MaxTagLen == 4

\* the number of commits in the history of a run
NumCommits == 3

-----------------------------------------------------------------------------
(* Strings *)

None == <<>>

Some(v) == <<v>>

Char(s, i) == SubSeq(s, i, i)

\* all strings over the alphabet A of length at most n
RECURSIVE Strs(_, _)
Strs(A, n) ==
    IF n = 0 THEN {""}
    ELSE LET shorter == Strs(A, n - 1)
         IN  shorter \cup {s \o c : s \in shorter, c \in A}

RECURSIVE Repeat(_, _)
Repeat(c, n) == IF n = 0 THEN "" ELSE c \o Repeat(c, n - 1)

\* the white space String.prototype.trim and the regular expression \s strip
IsWhitespace(c) == c \in {" ", "\n", "\t"}

RECURSIVE TrimStart(_)
TrimStart(s) ==
    IF Len(s) > 0 /\ IsWhitespace(Char(s, 1))
    THEN TrimStart(SubSeq(s, 2, Len(s)))
    ELSE s

RECURSIVE TrimEnd(_)
TrimEnd(s) ==
    IF Len(s) > 0 /\ IsWhitespace(Char(s, Len(s)))
    THEN TrimEnd(SubSeq(s, 1, Len(s) - 1))
    ELSE s

\* String.prototype.trim
Trim(s) == TrimEnd(TrimStart(s))

\* String.prototype.startsWith
StartsWith(s, p) == Len(s) >= Len(p) /\ SubSeq(s, 1, Len(p)) = p

\* Array.prototype.join
RECURSIVE Join(_, _)
Join(parts, sep) ==
    IF Len(parts) = 0 THEN ""
    ELSE IF Len(parts) = 1 THEN parts[1]
    ELSE parts[1] \o sep \o Join(Tail(parts), sep)

\* Array.prototype.filter(Boolean) on strings: the empty string is falsy
FilterBoolean(parts) == SelectSeq(parts, LAMBDA p : p # "")

\* String.prototype.split on a one-character separator: every separator ends a piece
RECURSIVE SplitFrom(_, _, _, _, _)
SplitFrom(s, sep, i, cur, acc) ==
    IF i > Len(s) THEN Append(acc, cur)
    ELSE IF Char(s, i) = sep THEN SplitFrom(s, sep, i + 1, "", Append(acc, cur))
    ELSE SplitFrom(s, sep, i + 1, cur \o Char(s, i), acc)

Split(s, sep) == SplitFrom(s, sep, 1, "", <<>>)

\* [\s,]: what separates hashtags
IsTagSeparator(c) == IsWhitespace(c) \/ c = ","

\* String.prototype.split(/[\s,]+/): a run of separators ends one piece
RECURSIVE SplitTagsFrom(_, _, _, _)
SplitTagsFrom(s, i, cur, acc) ==
    IF i > Len(s) THEN Append(acc, cur)
    ELSE IF IsTagSeparator(Char(s, i))
         THEN IF i < Len(s) /\ IsTagSeparator(Char(s, i + 1))
              THEN SplitTagsFrom(s, i + 1, cur, acc)
              ELSE SplitTagsFrom(s, i + 1, "", Append(acc, cur))
    ELSE SplitTagsFrom(s, i + 1, cur \o Char(s, i), acc)

SplitTags(s) == SplitTagsFrom(s, 1, "", <<>>)

-----------------------------------------------------------------------------
(* truncateContent, lines 58-70 *)

\* the marker appended to a truncated text (line 68)
TruncationMarker(limit) ==
    "\n\n[Diff truncated to the first " \o ToString(limit) \o " characters]"

\* a mutant of truncateContent: < for <= (a text of exactly limit characters is cut)
truncateContentOffByOne(content, limit) ==
    IF limit = None \/ limit[1] <= 0 THEN [text |-> content, truncated |-> FALSE]
    ELSE IF Len(content) < limit[1] THEN [text |-> content, truncated |-> FALSE]
    ELSE [text |-> SubSeq(content, 1, limit[1]) \o TruncationMarker(limit[1]),
          truncated |-> TRUE]

\* limit is None (undefined: the argument was not given) or Some(n)
truncateContent(content, limit) ==
    IF limit = None \/ limit[1] = 0 \/ limit[1] <= 0
    THEN [text |-> content, truncated |-> FALSE]
    ELSE IF Len(content) <= limit[1] THEN [text |-> content, truncated |-> FALSE]
    ELSE LET sliced == SubSeq(content, 1, limit[1])
         IN  [text |-> sliced \o TruncationMarker(limit[1]), truncated |-> TRUE]

-----------------------------------------------------------------------------
(* The git collaborator: what the commands of lines 24, 32, 43, 47 and 55  *)
(* print in the history repo.  A commit is [sha, subject, body, files],    *)
(* files a sequence of [path, diff]; repo lists the commits oldest first   *)
(* (a linear history), and HEAD is the last one.                           *)

HasCommit(sha) == \E i \in 1..Len(repo) : repo[i].sha = sha

IndexOf(sha) == CHOOSE i \in 1..Len(repo) : repo[i].sha = sha

\* git rev-parse <ref>: the commit's id and a line end, or None when it fails
GitRevParse(ref) ==
    IF ref = "HEAD" /\ Len(repo) > 0 THEN Some(repo[Len(repo)].sha \o "\n")
    ELSE IF HasCommit(ref) THEN Some(ref \o "\n")
    ELSE None

\* git rev-list --reverse <from>..<to>: the commits reachable from <to> and not
\* from <from>, oldest first, one per line
RECURSIVE RevListLines(_, _)
RevListLines(i, last) ==
    IF i > last THEN "" ELSE repo[i].sha \o "\n" \o RevListLines(i + 1, last)

GitRevList(fromId, toId) == RevListLines(IndexOf(fromId) + 1, IndexOf(toId))

\* git show -s --format=%s <sha>
GitShowSubject(sha) == repo[IndexOf(sha)].subject \o "\n"

\* git show -s --format=%b <sha>
GitShowBody(sha) == repo[IndexOf(sha)].body \o "\n"

\* the words the shell makes of a command's tail: unquoted blanks separate words,
\* '...' quotes, and \ outside quotes escapes the next character
RECURSIVE ShellWordsFrom(_, _, _, _, _, _)
ShellWordsFrom(s, i, quoted, started, cur, acc) ==
    IF i > Len(s) THEN (IF started THEN Append(acc, cur) ELSE acc)
    ELSE LET c == Char(s, i)
         IN  IF quoted
             THEN IF c = "'"
                  THEN ShellWordsFrom(s, i + 1, FALSE, TRUE, cur, acc)
                  ELSE ShellWordsFrom(s, i + 1, TRUE, TRUE, cur \o c, acc)
             ELSE IF c = "'" THEN ShellWordsFrom(s, i + 1, TRUE, TRUE, cur, acc)
             ELSE IF c = "\\" /\ i < Len(s)
                  THEN ShellWordsFrom(s, i + 2, FALSE, TRUE, cur \o Char(s, i + 1), acc)
             ELSE IF c = " "
                  THEN ShellWordsFrom(s, i + 1, FALSE, FALSE, "",
                                      IF started THEN Append(acc, cur) ELSE acc)
             ELSE ShellWordsFrom(s, i + 1, FALSE, TRUE, cur \o c, acc)

ShellWords(s) == ShellWordsFrom(s, 1, FALSE, FALSE, "", <<>>)

\* git show <sha> --format= [-- <path>...]: the diffs of the commit's files, of
\* those named after -- when any is
RECURSIVE DiffOfFiles(_, _)
DiffOfFiles(files, paths) ==
    IF Len(files) = 0 THEN ""
    ELSE (IF Len(paths) = 0 \/ \E k \in 1..Len(paths) : paths[k] = files[1].path
          THEN files[1].diff ELSE "")
         \o DiffOfFiles(Tail(files), paths)

GitShowDiff(sha, words) ==
    DiffOfFiles(repo[IndexOf(sha)].files,
                IF Len(words) > 0 /\ words[1] = "--" THEN Tail(words) ELSE <<>>)

-----------------------------------------------------------------------------
(* The functions of index.js that read the history, lines 8-56 *)

\* text.replace(/'/g, "'\\''")
RECURSIVE ReplaceQuotes(_)
ReplaceQuotes(text) ==
    IF Len(text) = 0 THEN ""
    ELSE (IF Char(text, 1) = "'" THEN "'\\''" ELSE Char(text, 1))
         \o ReplaceQuotes(SubSeq(text, 2, Len(text)))

escapeShellArg(value) == "'" \o ReplaceQuotes(value) \o "'"

\* None when git rev-parse fails (the function throws)
resolveCommit(ref) ==
    IF GitRevParse(ref) = None THEN None ELSE Some(Trim(GitRevParse(ref)[1]))

\* a mutant of listCommitsInRange: the --reverse is lost, newest first
listCommitsInRangeNewestFirst(fromId, toId) ==
    LET output == Trim(GitRevList(fromId, toId))
        lines == IF output = "" THEN <<>> ELSE FilterBoolean(Split(output, "\n"))
    IN  [i \in 1..Len(lines) |-> lines[Len(lines) + 1 - i]]

listCommitsInRange(fromId, toId) ==
    LET output == Trim(GitRevList(fromId, toId))
    IN  IF output = "" THEN <<>> ELSE FilterBoolean(Split(output, "\n"))

readCommitTitle(sha) == Trim(GitShowSubject(sha))

readCommitBody(sha) == Trim(GitShowBody(sha))

readCommitDiff(sha, diffPaths) ==
    LET pathClause ==
            IF Len(diffPaths) > 0
            THEN " -- " \o Join([i \in 1..Len(diffPaths) |-> escapeShellArg(diffPaths[i])], " ")
            ELSE ""
    IN  GitShowDiff(sha, ShellWords(pathClause))

-----------------------------------------------------------------------------
(* buildCommitSummary, lines 72-89 *)

\* a mutant of buildCommitSummary: the diff preview is pushed before the body
buildCommitSummaryDiffFirst(commit, maxDiffChars, diffPaths) ==
    LET title == readCommitTitle(commit)
        body == readCommitBody(commit)
        diff == readCommitDiff(commit, diffPaths)
        truncatedDiff == truncateContent(diff, Some(maxDiffChars))
        sections0 == <<"Commit: " \o commit, "Title: " \o title>>
        sections1 == IF Trim(truncatedDiff.text) # ""
                     THEN Append(sections0, "Diff preview:\n" \o truncatedDiff.text)
                     ELSE sections0
        sections2 == IF body # ""
                     THEN Append(sections1, "Body:\n" \o body)
                     ELSE sections1
    IN  Join(sections2, "\n\n")

buildCommitSummary(commit, maxDiffChars, diffPaths) ==
    LET title == readCommitTitle(commit)
        body == readCommitBody(commit)
        diff == readCommitDiff(commit, diffPaths)
        truncatedDiff == truncateContent(diff, Some(maxDiffChars))
        sections0 == <<"Commit: " \o commit, "Title: " \o title>>
        sections1 == IF body # ""
                     THEN Append(sections0, "Body:\n" \o body)
                     ELSE sections0
        sections2 == IF Trim(truncatedDiff.text) # ""
                     THEN Append(sections1, "Diff preview:\n" \o truncatedDiff.text)
                     ELSE sections1
    IN  Join(sections2, "\n\n")

-----------------------------------------------------------------------------
(* buildPrompt, lines 91-134.  ctx is the object run() passes: customPrompt, *)
(* fromSha, toSha, commitSummaries, community, tone, hashtags, callToAction, *)
(* extraInstructions.                                                        *)

FixedInstruction ==
    "You are a concise social media writer for X. Compose a single post (no thread) under 280 characters."

ClosingDirective == "Stay actionable, friendly, and avoid overly technical jargon."

\* the marker between two commit summaries (line 125)
SummarySeparator == "\n\n---\n\n"

\* a mutant of promptParts: the tone is pushed after the hashtags and the call to action
promptPartsToneLate(ctx) ==
    LET parts0 ==
            << FixedInstruction,
               "Summarize " \o ToString(Len(ctx.commitSummaries))
                   \o " commit(s) between " \o ctx.fromSha \o " and " \o ctx.toSha
                   \o " with a focus on what users will notice.",
               IF ctx.community # ""
               THEN "This message will share with the \"" \o ctx.community
                        \o "\" community."
               ELSE "This message will post to the main timeline." >>
        parts1 == IF Len(ctx.hashtags) > 0
                  THEN Append(parts0,
                              "Incorporate these hashtags: " \o Join(ctx.hashtags, " "))
                  ELSE parts0
        parts2 == IF ctx.callToAction # ""
                  THEN Append(parts1, "Finish with: " \o ctx.callToAction)
                  ELSE parts1
        parts3 == IF ctx.tone # ""
                  THEN Append(parts2, "Adopt a " \o ctx.tone \o " tone.")
                  ELSE parts2
        parts4 == Append(Append(parts3, "Commit context:"),
                         Join(ctx.commitSummaries, SummarySeparator))
        parts5 == IF ctx.extraInstructions # ""
                  THEN Append(parts4, "Additional instructions: " \o ctx.extraInstructions)
                  ELSE parts4
    IN  Append(parts5, ClosingDirective)

\* the parts of the prompt, in the order they are pushed (lines 106-131)
promptParts(ctx) ==
    LET parts0 ==
            << FixedInstruction,
               "Summarize " \o ToString(Len(ctx.commitSummaries))
                   \o " commit(s) between " \o ctx.fromSha \o " and " \o ctx.toSha
                   \o " with a focus on what users will notice.",
               IF ctx.community # ""
               THEN "This message will share with the \"" \o ctx.community
                        \o "\" community."
               ELSE "This message will post to the main timeline." >>
        parts1 == IF ctx.tone # ""
                  THEN Append(parts0, "Adopt a " \o ctx.tone \o " tone.")
                  ELSE parts0
        parts2 == IF Len(ctx.hashtags) > 0
                  THEN Append(parts1,
                              "Incorporate these hashtags: " \o Join(ctx.hashtags, " "))
                  ELSE parts1
        parts3 == IF ctx.callToAction # ""
                  THEN Append(parts2, "Finish with: " \o ctx.callToAction)
                  ELSE parts2
        parts4 == Append(Append(parts3, "Commit context:"),
                         Join(ctx.commitSummaries, SummarySeparator))
        parts5 == IF ctx.extraInstructions # ""
                  THEN Append(parts4, "Additional instructions: " \o ctx.extraInstructions)
                  ELSE parts4
    IN  Append(parts5, ClosingDirective)

\* a mutant of buildPrompt: the override is not looked at
buildPromptNoOverride(ctx) == Join(promptParts(ctx), "\n\n")

buildPrompt(ctx) ==
    IF ctx.customPrompt # "" THEN ctx.customPrompt
    ELSE Join(promptParts(ctx), "\n\n")

-----------------------------------------------------------------------------
(* The values run() derives from its inputs, lines 205-256 *)

\* core.getInput and core.getMultilineInput trim what the workflow gives
getInput(name) == Trim(inputs[name])

\* a mutant of hashtags: every piece gains a #
hashtagsAlwaysPrefixed(hashtagsInput) ==
    LET pieces == SplitTags(hashtagsInput)
        values == FilterBoolean([i \in 1..Len(pieces) |-> Trim(pieces[i])])
    IN  [i \in 1..Len(values) |-> "#" \o values[i]]

\* lines 225-229
hashtags(hashtagsInput) ==
    LET pieces == SplitTags(hashtagsInput)
        values == FilterBoolean([i \in 1..Len(pieces) |-> Trim(pieces[i])])
    IN  [i \in 1..Len(values) |->
            IF StartsWith(values[i], "#") THEN values[i] ELSE "#" \o values[i]]

\* lines 221-223
diffPaths(diffPathsInput) ==
    FilterBoolean([i \in 1..Len(diffPathsInput) |-> Trim(diffPathsInput[i])])

\* value || fallback on strings
OrDefault(value, fallback) == IF value = "" THEN fallback ELSE value

\* core.getBooleanInput: None when the value is none of the accepted spellings
\* (the call throws)
getBooleanInput(name) ==
    IF getInput(name) \in {"true", "True", "TRUE"} THEN Some(TRUE)
    ELSE IF getInput(name) \in {"false", "False", "FALSE"} THEN Some(FALSE)
    ELSE None

IsDigit(c) == c \in {"0", "1", "2", "3", "4", "5", "6", "7", "8", "9"}

DigitValue(c) ==
    CASE c = "0" -> 0 [] c = "1" -> 1 [] c = "2" -> 2 [] c = "3" -> 3 [] c = "4" -> 4
      [] c = "5" -> 5 [] c = "6" -> 6 [] c = "7" -> 7 [] c = "8" -> 8 [] c = "9" -> 9

\* how many digits s holds from position i on
RECURSIVE DigitRun(_, _)
DigitRun(s, i) ==
    IF i <= Len(s) /\ IsDigit(Char(s, i)) THEN 1 + DigitRun(s, i + 1) ELSE 0

\* the number the n digits of s from position i on write, after acc
RECURSIVE DigitsValue(_, _, _, _)
DigitsValue(s, i, n, acc) ==
    IF n = 0 THEN acc
    ELSE DigitsValue(s, i + 1, n - 1, 10 * acc + DigitValue(Char(s, i)))

RECURSIVE Pow10(_)
Pow10(n) == IF n = 0 THEN 1 ELSE 10 * Pow10(n - 1)

\* how many characters of s from position i on are a sign
SignLen(s, i) == IF i <= Len(s) /\ Char(s, i) \in {"+", "-"} THEN 1 ELSE 0

SignOf(s, i) == IF i <= Len(s) /\ Char(s, i) = "-" THEN -1 ELSE 1

\* Number.parseInt(input, 10): white space, a sign, then the longest run of digits;
\* what follows the digits is ignored.  None is NaN.
parseInt(input) ==
    LET s == TrimStart(input)
        first == 1 + SignLen(s, 1)
        n == DigitRun(s, first)
    IN  IF n = 0 THEN None ELSE Some(SignOf(s, 1) * DigitsValue(s, first, n, 0))

\* Number.parseFloat(input): white space, a sign, then the longest prefix that is a
\* decimal literal (digits, a fraction, an exponent) or Infinity; what follows is
\* ignored.  None is NaN, and a number is the fraction num/den (den = 0: infinite).
parseFloat(input) ==
    LET s == TrimStart(input)
        first == 1 + SignLen(s, 1)
        sign == SignOf(s, 1)
        intLen == DigitRun(s, first)
        dot == first + intLen
        hasDot == dot <= Len(s) /\ Char(s, dot) = "."
        fracLen == IF hasDot THEN DigitRun(s, dot + 1) ELSE 0
        mantissaEnd == IF hasDot THEN dot + 1 + fracLen ELSE dot
        hasE == mantissaEnd <= Len(s) /\ Char(s, mantissaEnd) \in {"e", "E"}
        expFirst == mantissaEnd + 1 + SignLen(s, mantissaEnd + 1)
        expLen == IF hasE THEN DigitRun(s, expFirst) ELSE 0
        exp == IF expLen = 0 THEN 0
               ELSE SignOf(s, mantissaEnd + 1) * DigitsValue(s, expFirst, expLen, 0)
        mantissa == DigitsValue(s, dot + 1, fracLen, DigitsValue(s, first, intLen, 0))
    IN  IF StartsWith(SubSeq(s, first, Len(s)), "Infinity")
        THEN Some([num |-> sign, den |-> 0])
        ELSE IF intLen = 0 /\ fracLen = 0 THEN None
        ELSE IF exp >= fracLen
             THEN Some([num |-> sign * mantissa * Pow10(exp - fracLen), den |-> 1])
             ELSE Some([num |-> sign * mantissa, den |-> Pow10(fracLen - exp)])

\* the first check of lines 205-254 that throws, as the message thrown; None when all pass
validationError ==
    LET maxDiffCharsInput == OrDefault(getInput("max_diff_chars"), "2000")
        maxOutputTokensInput == OrDefault(getInput("max_output_tokens"), "400")
        temperatureInput == OrDefault(getInput("temperature"), "0.2")
        maxDiffChars == parseInt(maxDiffCharsInput)
        maxOutputTokens == parseInt(maxOutputTokensInput)
        temperature == parseFloat(temperatureInput)
    IN  IF inputs.from = ""
        THEN Some("Input required and not supplied: from")
        ELSE IF getBooleanInput("include_start_commit") = None
        THEN Some("Input does not meet YAML 1.2 \"Core Schema\" specification: include_start_commit")
        ELSE IF env.GITHUB_TOKEN = ""
        THEN Some("GITHUB_TOKEN environment variable is required to call GitHub Models API.")
        ELSE IF env.X_BEARER_TOKEN = ""
        THEN Some("X_BEARER_TOKEN environment variable is required to post to X.")
        ELSE IF maxDiffChars = None \/ maxDiffChars[1] < 0
        THEN Some("\"max_diff_chars\" must be a non-negative integer. Received \""
                  \o maxDiffCharsInput \o "\".")
        ELSE IF maxOutputTokens = None \/ maxOutputTokens[1] <= 0
        THEN Some("\"max_output_tokens\" must be a positive integer. Received \""
                  \o maxOutputTokensInput \o "\".")
        ELSE IF \/ temperature = None
                \/ temperature[1].num < 0
                \/ temperature[1].num > 2 * temperature[1].den
        THEN Some("\"temperature\" must be a number between 0 and 2. Received \""
                  \o temperatureInput \o "\".")
        ELSE None

\* the locals of run() once lines 205-256 have passed
validConf ==
    [ startRef |-> getInput("from"),
      endRef |-> OrDefault(getInput("to"), "HEAD"),
      includeStartCommit |-> getBooleanInput("include_start_commit")[1],
      diffPaths |-> diffPaths(inputs.paths),
      hashtags |-> hashtags(getInput("hashtags")),
      maxDiffChars |-> parseInt(OrDefault(getInput("max_diff_chars"), "2000"))[1],
      maxOutputTokens |-> parseInt(OrDefault(getInput("max_output_tokens"), "400"))[1],
      temperature |-> parseFloat(OrDefault(getInput("temperature"), "0.2"))[1] ]

\* conf before run() has derived it
NoConf ==
    [ startRef |-> "", endRef |-> "", includeStartCommit |-> FALSE, diffPaths |-> <<>>,
      hashtags |-> <<>>, maxDiffChars |-> 0, maxOutputTokens |-> 0,
      temperature |-> [num |-> 0, den |-> 1] ]

-----------------------------------------------------------------------------
(* The two services, lines 136-201 *)

MODELS_ENDPOINT == "https://models.github.ai/inference/chat/completions"

\* the length X allows a post, which the prompts name (lines 6 and 107)
PostLimit == 280

\* what the completion service may answer: fetch rejects ("network"), the body is no
\* JSON ("badjson"), or a response with ok, status, text and, in its JSON, the first
\* choice's message content (None: no choices, no message or no content)
ModelResponses ==
    { [kind |-> "network", ok |-> FALSE, status |-> "0", text |-> "", content |-> None],
      [kind |-> "badjson", ok |-> TRUE, status |-> "200", text |-> "<html>", content |-> None],
      [kind |-> "json", ok |-> FALSE, status |-> "429", text |-> "rate limited", content |-> None],
      [kind |-> "json", ok |-> TRUE, status |-> "200", text |-> "", content |-> None],
      [kind |-> "json", ok |-> TRUE, status |-> "200", text |-> "", content |-> Some("")],
      [kind |-> "json", ok |-> TRUE, status |-> "200", text |-> "", content |-> Some(" \n")],
      [kind |-> "json", ok |-> TRUE, status |-> "200", text |-> "",
       content |-> Some("  Login is here! #alpha\n")],
      [kind |-> "json", ok |-> TRUE, status |-> "200", text |-> "",
       content |-> Some(Repeat("a", PostLimit + 1) \o " ")] }

\* a mutant of callModel: the content is returned as the service gave it
callModelUntrimmed(response) ==
    IF response.kind = "network" THEN [ok |-> FALSE, value |-> "fetch failed"]
    ELSE IF ~response.ok
    THEN [ok |-> FALSE, value |-> "Model request failed with status " \o response.status
                                   \o ": " \o response.text]
    ELSE IF response.kind = "badjson"
    THEN [ok |-> FALSE, value |-> "Unexpected token < in JSON at position 0"]
    ELSE IF response.content = None \/ response.content[1] = ""
    THEN [ok |-> FALSE, value |-> "Model response did not include any content."]
    ELSE [ok |-> TRUE, value |-> response.content[1]]

\* callModel on the service's response: the text returned, or (ok FALSE) the message
\* of the error thrown
callModel(response) ==
    IF response.kind = "network" THEN [ok |-> FALSE, value |-> "fetch failed"]
    ELSE IF ~response.ok
    THEN [ok |-> FALSE, value |-> "Model request failed with status " \o response.status
                                   \o ": " \o response.text]
    ELSE IF response.kind = "badjson"
    THEN [ok |-> FALSE, value |-> "Unexpected token < in JSON at position 0"]
    ELSE IF response.content = None \/ response.content[1] = ""
    THEN [ok |-> FALSE, value |-> "Model response did not include any content."]
    ELSE [ok |-> TRUE, value |-> Trim(response.content[1])]

\* encodeURIComponent: the characters that are not unreserved are percent-encoded
\* (those a community label is drawn with here)
RECURSIVE encodeURIComponent(_)
encodeURIComponent(s) ==
    IF Len(s) = 0 THEN ""
    ELSE (CASE Char(s, 1) = " " -> "%20"
            [] Char(s, 1) = "/" -> "%2F"
            [] Char(s, 1) = "#" -> "%23"
            [] OTHER -> Char(s, 1))
         \o encodeURIComponent(SubSeq(s, 2, Len(s)))

\* lines 177-179; communityId "" is run()'s undefined
xEndpoint(communityId) ==
    IF communityId # ""
    THEN "https://api.twitter.com/2/communities/" \o encodeURIComponent(communityId)
             \o "/posts"
    ELSE "https://api.twitter.com/2/tweets"

\* what X may answer: fetch rejects, the body is no JSON, or a response with ok,
\* status, statusText and, in its JSON, errors (their messages), title and data.id
XResponses ==
    { [kind |-> "network", ok |-> FALSE, status |-> "0", statusText |-> "",
       errors |-> <<>>, title |-> "", id |-> ""],
      [kind |-> "badjson", ok |-> FALSE, status |-> "502", statusText |-> "Bad Gateway",
       errors |-> <<>>, title |-> "", id |-> ""],
      [kind |-> "json", ok |-> FALSE, status |-> "403", statusText |-> "Forbidden",
       errors |-> <<"Not permitted", "", "Duplicate">>, title |-> "Forbidden", id |-> ""],
      [kind |-> "json", ok |-> FALSE, status |-> "401", statusText |-> "Unauthorized",
       errors |-> <<>>, title |-> "", id |-> ""],
      [kind |-> "json", ok |-> TRUE, status |-> "201", statusText |-> "Created",
       errors |-> <<>>, title |-> "", id |-> "1234"],
      [kind |-> "json", ok |-> TRUE, status |-> "200", statusText |-> "OK",
       errors |-> <<>>, title |-> "", id |-> ""] }

\* postToX on X's response: data.id (ok TRUE), or the message of the error thrown
postToX(response) ==
    IF response.kind = "network" THEN [ok |-> FALSE, value |-> "fetch failed"]
    ELSE IF response.kind = "badjson"
    THEN [ok |-> FALSE, value |-> "Unexpected token < in JSON at position 0"]
    ELSE IF ~response.ok
    THEN LET errorMessage ==
                 OrDefault(Join(FilterBoolean(response.errors), ", "),
                           OrDefault(response.title, response.statusText))
         IN  [ok |-> FALSE, value |-> "X API request failed (" \o response.status
                                       \o "): " \o errorMessage]
    ELSE [ok |-> TRUE, value |-> response.id]

-----------------------------------------------------------------------------
(* run(), lines 203-326: one action for each step between two collaborator *)
(* operations.  Every throw is caught at line 323 and ends the run in      *)
(* core.setFailed.                                                         *)

OutputNames == {"generated-post", "post-id", "post-url", "community-id"}

NoOutputs == [name \in OutputNames |-> None]

\* one collaborator operation, as calls records it
Call(op, target, argument, ok, out) ==
    [op |-> op, target |-> target, arg |-> argument, ok |-> ok, out |-> out]

\* lines 323-325
Throw(message) ==
    /\ pc' = "failed"
    /\ failed' = Some(message)

\* line 261
commitOrderOf(includeStartCommit, fromId, commitsInRange) ==
    IF includeStartCommit THEN <<fromId>> \o commitsInRange ELSE commitsInRange

\* the context run() passes to buildPrompt with the summaries given (lines 277-287)
contextOf(summaries, fromId, toId, tags) ==
    [ customPrompt |-> getInput("prompt"),
      fromSha |-> fromId,
      toSha |-> toId,
      commitSummaries |-> summaries,
      community |-> getInput("community"),
      tone |-> getInput("tone"),
      hashtags |-> tags,
      callToAction |-> getInput("call_to_action"),
      extraInstructions |-> getInput("extra_instructions") ]

\* lines 272-275
commitSummariesOf(order, maxDiffChars, paths) ==
    [i \in 1..Len(order) |-> buildCommitSummary(order[i], maxDiffChars, paths)]

\* lines 205-256
Validate ==
    /\ pc = "start"
    /\ IF validationError # None
       THEN Throw(validationError[1]) /\ UNCHANGED conf
       ELSE pc' = "resolveFrom" /\ conf' = validConf /\ UNCHANGED failed
    /\ UNCHANGED <<repo, inputs, env, calls, notice, outputs, summary, fromSha, toSha,
                   commitOrder, commitSummaries, prompt, generatedPost, arg, ret>>

\* line 257.  gitWorks FALSE: the command fails for a reason of its own
ResolveFrom ==
    /\ pc = "resolveFrom"
    /\ \E gitWorks \in BOOLEAN :
         LET resolved == IF gitWorks THEN resolveCommit(conf.startRef) ELSE None
         IN  /\ calls' = Append(calls, Call("resolve", "git", conf.startRef, resolved # None,
                                            IF resolved # None THEN resolved[1] ELSE ""))
             /\ IF resolved = None
                THEN Throw("Failed to resolve commit reference \"" \o conf.startRef \o "\"")
                     /\ UNCHANGED fromSha
                ELSE pc' = "resolveTo" /\ fromSha' = resolved[1] /\ UNCHANGED failed
    /\ UNCHANGED <<repo, inputs, env, notice, outputs, summary, conf, toSha,
                   commitOrder, commitSummaries, prompt, generatedPost, arg, ret>>

\* line 258
ResolveTo ==
    /\ pc = "resolveTo"
    /\ \E gitWorks \in BOOLEAN :
         LET resolved == IF gitWorks THEN resolveCommit(conf.endRef) ELSE None
         IN  /\ calls' = Append(calls, Call("resolve", "git", conf.endRef, resolved # None,
                                            IF resolved # None THEN resolved[1] ELSE ""))
             /\ IF resolved = None
                THEN Throw("Failed to resolve commit reference \"" \o conf.endRef \o "\"")
                     /\ UNCHANGED toSha
                ELSE pc' = "collectRange" /\ toSha' = resolved[1] /\ UNCHANGED failed
    /\ UNCHANGED <<repo, inputs, env, notice, outputs, summary, conf, fromSha,
                   commitOrder, commitSummaries, prompt, generatedPost, arg, ret>>

\* a mutant of CollectRange: the check of line 263 is lost, an empty list goes on
CollectRangeNoShortCircuit ==
    /\ pc = "collectRange"
    /\ \E gitWorks \in BOOLEAN :
         /\ calls' = Append(calls, Call("listRange", "git", fromSha \o ".." \o toSha, gitWorks,
                                        IF gitWorks THEN GitRevList(fromSha, toSha) ELSE ""))
         /\ IF ~gitWorks
            THEN /\ Throw("Failed to list commits between " \o fromSha \o " and " \o toSha)
                 /\ UNCHANGED commitOrder
            ELSE /\ commitOrder' = commitOrderOf(conf.includeStartCommit, fromSha,
                                                 listCommitsInRange(fromSha, toSha))
                 /\ pc' = "collect"
                 /\ UNCHANGED failed
    /\ UNCHANGED <<repo, inputs, env, notice, outputs, summary, conf, fromSha, toSha,
                   commitSummaries, prompt, generatedPost, arg, ret>>

\* lines 260-270
CollectRange ==
    /\ pc = "collectRange"
    /\ \E gitWorks \in BOOLEAN :
         /\ calls' = Append(calls, Call("listRange", "git", fromSha \o ".." \o toSha, gitWorks,
                                        IF gitWorks THEN GitRevList(fromSha, toSha) ELSE ""))
         /\ IF ~gitWorks
            THEN /\ Throw("Failed to list commits between " \o fromSha \o " and " \o toSha)
                 /\ UNCHANGED <<commitOrder, notice, outputs>>
            ELSE LET order == commitOrderOf(conf.includeStartCommit, fromSha,
                                            listCommitsInRange(fromSha, toSha))
                 IN  /\ commitOrder' = order
                     /\ UNCHANGED failed
                     /\ IF Len(order) = 0
                        THEN /\ notice' = Some("No commits found between " \o fromSha
                                               \o " and " \o toSha \o ". Skipping X post.")
                             /\ outputs' = [NoOutputs EXCEPT
                                              !["generated-post"] = Some(""),
                                              !["post-id"] = Some(""),
                                              !["post-url"] = Some(""),
                                              !["community-id"] = Some(getInput("community"))]
                             /\ pc' = "done"
                        ELSE pc' = "collect" /\ UNCHANGED <<notice, outputs>>
    /\ UNCHANGED <<repo, inputs, env, summary, conf, fromSha, toSha,
                   commitSummaries, prompt, generatedPost, arg, ret>>

\* the reads buildCommitSummary makes of commit sha (lines 73-75) when the read
\* named by outcome fails ("ok": none does): each read up to the failing one
readCalls(sha, outcome) ==
    LET titleCall == Call("readTitle", "git", sha, outcome # "title",
                          IF outcome # "title" THEN GitShowSubject(sha) ELSE "")
        bodyCall == Call("readBody", "git", sha, outcome # "body",
                         IF outcome # "body" THEN GitShowBody(sha) ELSE "")
        diffCall == Call("readDiff", "git", sha, outcome # "diff",
                         IF outcome # "diff" THEN readCommitDiff(sha, conf.diffPaths) ELSE "")
    IN  CASE outcome = "title" -> <<titleCall>>
          [] outcome = "body" -> <<titleCall, bodyCall>>
          [] OTHER -> <<titleCall, bodyCall, diffCall>>

\* a mutant of CollectCommit: a read that fails is swallowed, the commit is
\* summarised by its id alone and the run goes on
CollectCommitSkipFailed ==
    /\ pc = "collect"
    /\ Len(commitSummaries) < Len(commitOrder)
    /\ \E outcome \in {"ok", "title", "body", "diff"} :
         LET sha == commitOrder[Len(commitSummaries) + 1]
         IN  /\ calls' = calls \o readCalls(sha, outcome)
             /\ commitSummaries' =
                    Append(commitSummaries,
                           IF outcome = "ok"
                           THEN buildCommitSummary(sha, conf.maxDiffChars, conf.diffPaths)
                           ELSE "Commit: " \o sha)
    /\ UNCHANGED <<repo, inputs, env, pc, failed, notice, outputs, summary, conf, fromSha,
                   toSha, commitOrder, prompt, generatedPost, arg, ret>>

\* lines 272-275, one commit of the map: the next commit's title, body and diff are
\* read and its summary built; a read that fails throws
CollectCommit ==
    /\ pc = "collect"
    /\ Len(commitSummaries) < Len(commitOrder)
    /\ \E outcome \in {"ok", "title", "body", "diff"} :
         LET sha == commitOrder[Len(commitSummaries) + 1]
         IN  /\ calls' = calls \o readCalls(sha, outcome)
             /\ IF outcome = "ok"
                THEN /\ commitSummaries' =
                            Append(commitSummaries,
                                   buildCommitSummary(sha, conf.maxDiffChars, conf.diffPaths))
                     /\ UNCHANGED <<pc, failed>>
                ELSE /\ Throw("Command failed: git show " \o sha)
                     /\ UNCHANGED commitSummaries
    /\ UNCHANGED <<repo, inputs, env, notice, outputs, summary, conf, fromSha, toSha,
                   commitOrder, prompt, generatedPost, arg, ret>>

\* lines 277-289, once the map of line 272 is through
ComposePrompt ==
    /\ pc = "collect"
    /\ Len(commitSummaries) = Len(commitOrder)
    /\ prompt' = buildPrompt(contextOf(commitSummaries, fromSha, toSha, conf.hashtags))
    /\ pc' = "callModel"
    /\ UNCHANGED <<repo, inputs, env, calls, failed, notice, outputs, summary, conf, fromSha,
                   toSha, commitOrder, commitSummaries, generatedPost, arg, ret>>

\* lines 291-299
CallModel ==
    /\ pc = "callModel"
    /\ \E response \in ModelResponses :
         LET result == callModel(response)
         IN  /\ calls' = Append(calls, Call("complete", MODELS_ENDPOINT, prompt, result.ok,
                                            IF response.content = None THEN ""
                                            ELSE response.content[1]))
             /\ IF result.ok
                THEN generatedPost' = result.value /\ pc' = "postToX" /\ UNCHANGED failed
                ELSE Throw(result.value) /\ UNCHANGED generatedPost
    /\ UNCHANGED <<repo, inputs, env, notice, outputs, summary, conf, fromSha, toSha,
                   commitOrder, commitSummaries, prompt, arg, ret>>

\* lines 301-314: the post is published and the outputs are set
PostToX ==
    /\ pc = "postToX"
    /\ \E response \in XResponses :
         LET result == postToX(response)
             postId == IF result.ok THEN result.value ELSE ""
             postUrl == IF postId # "" THEN "https://x.com/i/web/status/" \o postId ELSE ""
         IN  /\ calls' = Append(calls, Call("publish", xEndpoint(getInput("community")),
                                            generatedPost, result.ok, postId))
             /\ IF result.ok
                THEN /\ outputs' = [NoOutputs EXCEPT
                                      !["generated-post"] = Some(generatedPost),
                                      !["post-id"] = Some(postId),
                                      !["post-url"] = Some(postUrl),
                                      !["community-id"] = Some(getInput("community"))]
                     /\ pc' = "writeSummary"
                     /\ UNCHANGED failed
                ELSE Throw(result.value) /\ UNCHANGED outputs
    /\ UNCHANGED <<repo, inputs, env, notice, summary, conf, fromSha, toSha,
                   commitOrder, commitSummaries, prompt, generatedPost, arg, ret>>

\* lines 316-322: the job summary is written, which may fail
WriteSummary ==
    /\ pc = "writeSummary"
    /\ \E written \in BOOLEAN :
         IF written
         THEN /\ summary' = "## AI generated X post\n" \o generatedPost \o "\n"
                     \o (IF outputs["post-url"][1] # ""
                         THEN "Posted at " \o outputs["post-url"][1]
                         ELSE "Publication succeeded without a retrievable URL.")
              /\ pc' = "done"
              /\ UNCHANGED failed
         ELSE Throw("Unable to write the job summary") /\ UNCHANGED summary
    /\ UNCHANGED <<repo, inputs, env, calls, notice, outputs, conf, fromSha, toSha,
                   commitOrder, commitSummaries, prompt, generatedPost, arg, ret>>

-----------------------------------------------------------------------------
(* The histories and inputs the model draws *)

\* commit number i of the history of a run: the first has no body, the second
\* touches two files, the third changes nothing (an empty diff)
Commit(i) ==
    [ sha |-> "c" \o ToString(i),
      subject |-> IF i % 3 = 1 THEN "Add login" ELSE IF i % 3 = 2 THEN " Fix crash" ELSE "Bump",
      body |-> IF i % 3 = 2 THEN "Closes the\n\nnull case.\n" ELSE "",
      files |-> IF i % 3 = 1 THEN <<[path |-> "src/app.js", diff |-> "+login\n"]>>
                ELSE IF i % 3 = 2
                THEN <<[path |-> "src/app.js", diff |-> "-a\n+b\n"],
                       [path |-> "docs/it's new.md", diff |-> "+doc\n"]>>
                ELSE <<>> ]

DefaultRepo == [i \in 1..NumCommits |-> Commit(i)]

\* the inputs of a run that names nothing but from
DefaultInputs ==
    [ from |-> "c1", to |-> "", include_start_commit |-> "false", paths |-> <<>>,
      max_diff_chars |-> "", max_output_tokens |-> "", temperature |-> "",
      extra_instructions |-> "", prompt |-> "", tone |-> "", call_to_action |-> "",
      community |-> "", hashtags |-> "" ]

DefaultEnv == [GITHUB_TOKEN |-> "ghs_token", X_BEARER_TOKEN |-> "x_token"]

\* the state of run() before it starts
RunAt(start) ==
    /\ pc = start
    /\ calls = <<>>
    /\ failed = None
    /\ notice = None
    /\ outputs = NoOutputs
    /\ summary = ""
    /\ conf = NoConf
    /\ fromSha = ""
    /\ toSha = ""
    /\ commitOrder = <<>>
    /\ commitSummaries = <<>>
    /\ prompt = ""
    /\ generatedPost = ""

\* runs over ranges, start-commit policies, diff limits, path filters and prompt inputs
Init ==
    /\ repo = DefaultRepo
    /\ env = DefaultEnv
    /\ \E from \in {"c1", "c2", " HEAD", "v9"}, to \in {"", "c1", "c2"},
          include \in {"true", "false"}, limit \in {"", "3"},
          paths \in {<<>>, <<" docs/it's new.md", "">>},
          override \in {"", "Write it."}, tags \in {"", "alpha, #beta gamma"},
          community \in {"", "dev team"} :
         inputs = [DefaultInputs EXCEPT !.from = from, !.to = to,
                                        !.include_start_commit = include,
                                        !.max_diff_chars = limit, !.paths = paths,
                                        !.prompt = override, !.hashtags = tags,
                                        !.community = community]
    /\ RunAt("start")
    /\ arg = None
    /\ ret = None

Next ==
    \/ Validate
    \/ ResolveFrom
    \/ ResolveTo
    \/ CollectRange
    \/ CollectCommit
    \/ ComposePrompt
    \/ CallModel
    \/ PostToX
    \/ WriteSummary

Spec == Init /\ [][Next]_vars

\* runs over credentials and the three numeric inputs
InitValidate ==
    /\ repo = DefaultRepo
    /\ \E github \in {"", "ghs_token"}, x \in {"", "x_token"} :
         env = [GITHUB_TOKEN |-> github, X_BEARER_TOKEN |-> x]
    /\ \E from \in {"", "c2"}, include \in {"false", "yes"},
          limit \in {"", "0", "3", "-1", "many", "1.5", "12abc"},
          tokens \in {"", "0", "1", "-5", "lots", "0.5", "40 tokens"},
          temperature \in {"", "0", "2", "2.0", "2.1", "3", "-1", "-0", "hot", ".5",
                           "1.5x", "2e0", "1e1", "Infinity"} :
         inputs = [DefaultInputs EXCEPT !.from = from, !.include_start_commit = include,
                                        !.max_diff_chars = limit,
                                        !.max_output_tokens = tokens,
                                        !.temperature = temperature]
    /\ RunAt("start")
    /\ arg = None
    /\ ret = None

SpecValidate == InitValidate /\ [][Next]_vars

-----------------------------------------------------------------------------
(* The pure functions applied on their own: every specification below      *)
(* draws the arguments in its initial state and applies the function once. *)

\* no run() is under way
Idle ==
    /\ env = DefaultEnv
    /\ RunAt("idle")

DiffAlphabet == {"d", " ", "\n"}

\* truncateContent over every content and limit, the absent limit included
InitTruncate ==
    /\ repo = DefaultRepo
    /\ inputs = DefaultInputs
    /\ Idle
    /\ \E content \in Strs(DiffAlphabet, MaxDiffLen),
          limit \in {None} \cup {Some(n) : n \in -1..(MaxDiffLen + 1)} :
         arg = [content |-> content, limit |-> limit]
    /\ ret = None

ApplyTruncate ==
    /\ pc = "idle"
    /\ "content" \in DOMAIN arg
    /\ ret = None
    /\ ret' = Some(truncateContent(arg.content, arg.limit))
    /\ UNCHANGED <<repo, inputs, env, arg>>
    /\ UNCHANGED runVars

SpecTruncate == InitTruncate /\ [][ApplyTruncate]_vars

\* buildCommitSummary over one commit of every subject, body and diff, every limit
\* run() can pass (a non-negative integer) and every path filter
InitSummary ==
    /\ \E subject \in {"", "Fix crash", " Fix  crash "},
          body \in {"", " \n", "Why.\n\nHow.\n"},
          diff \in Strs(DiffAlphabet, MaxDiffLen),
          other \in {"", "+q\n"} :
         repo = << [ sha |-> "c1", subject |-> subject, body |-> body,
                     files |-> << [path |-> "src/app.js", diff |-> diff],
                                  [path |-> "docs/it's new.md", diff |-> other] >> ] >>
    /\ inputs = DefaultInputs
    /\ Idle
    /\ \E limit \in 0..(MaxDiffLen + 1),
          paths \in { <<>>, <<"src/app.js">>, <<"docs/it's new.md">>,
                      <<"docs/it's new.md", "src/app.js">>, <<"README.md">> } :
         arg = [commit |-> "c1", maxDiffChars |-> limit, diffPaths |-> paths]
    /\ ret = None

ApplySummary ==
    /\ pc = "idle"
    /\ "commit" \in DOMAIN arg
    /\ ret = None
    /\ ret' = Some(buildCommitSummary(arg.commit, arg.maxDiffChars, arg.diffPaths))
    /\ UNCHANGED <<repo, inputs, env, arg>>
    /\ UNCHANGED runVars

SpecSummary == InitSummary /\ [][ApplySummary]_vars

\* the hashtags input over every short string of its characters, and the one of
\* the documentation
InitHashtags ==
    /\ repo = DefaultRepo
    /\ \E tags \in Strs({"a", "#", ",", " "}, MaxTagLen) \cup {"alpha, #beta gamma"} :
         inputs = [DefaultInputs EXCEPT !.hashtags = tags]
    /\ Idle
    /\ arg = [order |-> <<"c1">>]
    /\ ret = None

\* lines 225-229, and the prompt of lines 277-287 with the hashtags they give
ApplyHashtags ==
    /\ pc = "idle"
    /\ "order" \in DOMAIN arg
    /\ ret = None
    /\ LET tags == hashtags(getInput("hashtags"))
       IN  ret' = Some([ hashtags |-> tags,
                         prompt |-> buildPrompt(contextOf(commitSummariesOf(arg.order, 0, <<>>),
                                                          "c1", "c1", tags)) ])
    /\ UNCHANGED <<repo, inputs, env, arg>>
    /\ UNCHANGED runVars

SpecHashtags == InitHashtags /\ [][ApplyHashtags]_vars

\* the commits run() collects between two commits of the history (lines 260-261)
collectedOrder(fromId, toId, includeStartCommit) ==
    commitOrderOf(includeStartCommit, fromId, listCommitsInRange(fromId, toId))

\* buildPrompt over every presence of its optional fields and every range of the
\* history that collects a commit
InitPrompt ==
    /\ repo = DefaultRepo
    /\ \E override \in {"", "Write it.", " "}, tone \in {"", "bold"},
          tags \in {"", "a", "a #b"}, cta \in {"", "Try it"},
          extra \in {"", "no jargon"}, community \in {"", "dev team"} :
         inputs = [DefaultInputs EXCEPT !.prompt = override, !.tone = tone,
                                        !.hashtags = tags, !.call_to_action = cta,
                                        !.extra_instructions = extra,
                                        !.community = community]
    /\ Idle
    /\ \E i \in 1..NumCommits, j \in 1..NumCommits, include \in BOOLEAN :
         /\ include \/ i < j
         /\ arg = [fromSha |-> DefaultRepo[i].sha, toSha |-> DefaultRepo[j].sha,
                   includeStartCommit |-> include]
    /\ ret = None

\* lines 272-287 on the commits collected
ApplyPrompt ==
    /\ pc = "idle"
    /\ "fromSha" \in DOMAIN arg
    /\ ret = None
    /\ LET order == collectedOrder(arg.fromSha, arg.toSha, arg.includeStartCommit)
           summaries == commitSummariesOf(order, 3, <<>>)
       IN  ret' = Some([ commitOrder |-> order,
                         prompt |-> buildPrompt(contextOf(summaries, arg.fromSha, arg.toSha,
                                                          hashtags(getInput("hashtags")))) ])
    /\ UNCHANGED <<repo, inputs, env, arg>>
    /\ UNCHANGED runVars

SpecPrompt == InitPrompt /\ [][ApplyPrompt]_vars

-----------------------------------------------------------------------------
(* Properties of run() *)

CallsOf(ops) == {i \in 1..Len(calls) : calls[i].op \in ops}

\* the range query of line 260 has returned
RangeListed == \E i \in CallsOf({"listRange"}) : calls[i].ok

\* the commits after fromId up to and including toId, oldest first, by their place
\* in the history
CommitsAfter(fromId, toId) ==
    LET first == IndexOf(fromId)
        last == IndexOf(toId)
    IN  [k \in 1..(IF last > first THEN last - first ELSE 0) |-> repo[first + k].sha]

\* C1: a run whose collected commit list is empty ends at once, not failed, with the
\* no-op notice and empty generated-post, post-id and post-url outputs, and never
\* calls the completion or the publish service.
EmptyRangeShortCircuits ==
    (RangeListed /\ commitOrder = <<>>) =>
        /\ pc = "done"
        /\ failed = None
        /\ notice # None
        /\ outputs["generated-post"] = Some("")
        /\ outputs["post-id"] = Some("")
        /\ outputs["post-url"] = Some("")
        /\ CallsOf({"complete", "publish"}) = {}
        /\ prompt = ""

\* from and to resolve to the same commit, the start commit is not included, and
\* the run has short-circuited
EmptyRangeWitness ==
    /\ RangeListed
    /\ commitOrder = <<>>
    /\ fromSha = toSha
    /\ ~conf.includeStartCommit
    /\ pc = "done"

\* C2: the publish call comes right after a completion call that returned a text, and
\* the text it hands to X is that content trimmed, however long it is.
PublishesTheCompletion ==
    /\ \A i \in CallsOf({"publish"}) :
         /\ i > 1
         /\ calls[i - 1].op = "complete"
         /\ calls[i - 1].ok
         /\ calls[i].arg = Trim(calls[i - 1].out)
         /\ \A j \in 1..(i - 1) : calls[j].op # "publish"
    /\ pc \in {"postToX", "writeSummary"} =>
         /\ Len(calls) > 0
         /\ calls[Len(calls) - (IF pc = "postToX" THEN 0 ELSE 1)].op = "complete"
         /\ generatedPost = Trim(calls[Len(calls) - (IF pc = "postToX" THEN 0 ELSE 1)].out)

\* a text longer than X allows, which the service padded, has been handed to X
LongPostPublished ==
    \E i \in CallsOf({"publish"}) :
        /\ Len(calls[i].arg) > PostLimit
        /\ calls[i].arg # calls[i - 1].out

\* C3: a collaborator operation that fails is the last one of the run and leaves the
\* run failed: it is not retried, nothing is invoked after it, publish is not called
\* after a failure, and a prompt is built only from the summaries of all the
\* collected commits.
FailFast ==
    /\ \A i \in 1..Len(calls) :
         ~calls[i].ok => (i = Len(calls) /\ pc = "failed" /\ failed # None)
    /\ (pc = "failed") <=> (failed # None)
    /\ \A i \in CallsOf({"publish"}) : \A j \in 1..(i - 1) : calls[j].ok
    /\ prompt # "" =>
         /\ Len(commitSummaries) = Len(commitOrder)
         /\ \A i \in CallsOf({"readTitle", "readBody", "readDiff"}) : calls[i].ok

\* the diff of the second collected commit could not be read: the run has failed
\* with one summary built, and no prompt
PartialSummariesWitness ==
    /\ pc = "failed"
    /\ Len(commitSummaries) = 1
    /\ Len(commitOrder) > 1
    /\ calls[Len(calls)].op = "readDiff"
    /\ ~calls[Len(calls)].ok
    /\ prompt = ""
    /\ CallsOf({"complete", "publish"}) = {}

\* C6: once the range is listed, the collected list is the commits after fromSha up
\* to and including toSha, oldest first, behind fromSha when the start commit is
\* included; without it fromSha is not in the list, and with it and an empty range
\* the list is fromSha alone and the run goes on.
CollectsTheRange ==
    RangeListed =>
        LET range == CommitsAfter(fromSha, toSha)
        IN  /\ commitOrder = (IF conf.includeStartCommit THEN <<fromSha>> \o range ELSE range)
            /\ ~conf.includeStartCommit => \A k \in 1..Len(commitOrder) : commitOrder[k] # fromSha
            /\ (conf.includeStartCommit /\ Len(range) = 0) =>
                   (commitOrder = <<fromSha>> /\ notice = None)
            /\ \A k \in 1..(Len(commitOrder) - 1) :
                   IndexOf(commitOrder[k]) < IndexOf(commitOrder[k + 1])

\* the start commit is included, the range is empty, and the run has gone on to
\* ask for a post about that one commit
StartCommitAloneWitness ==
    /\ RangeListed
    /\ conf.includeStartCommit
    /\ fromSha = toSha
    /\ commitOrder = <<fromSha>>
    /\ pc = "postToX"

\* the text of digits only
IsDigits(s) == Len(s) > 0 /\ \A i \in 1..Len(s) : IsDigit(Char(s, i))

\* s writes an integer: a sign at most, then digits and nothing else
IsInteger(s) == IsDigits(SubSeq(s, 1 + SignLen(s, 1), Len(s)))

\* s writes a real number: a sign at most, then digits with at most one point among
\* them, an exponent at most, and nothing else
IsNumber(s) ==
    \E n \in 1..Len(s) :
        LET mantissa == SubSeq(s, 1 + SignLen(s, 1), n)
            exponent == SubSeq(s, n + 1, Len(s))
        IN  /\ \/ IsDigits(mantissa)
               \/ \E k \in 1..Len(mantissa) :
                      /\ Char(mantissa, k) = "."
                      /\ IsDigits(SubSeq(mantissa, 1, k - 1) \o "0"
                                      \o SubSeq(mantissa, k + 1, Len(mantissa)))
                      /\ Len(mantissa) > 1
            /\ \/ exponent = ""
               \/ /\ Char(exponent, 1) \in {"e", "E"}
                  /\ IsInteger(SubSeq(exponent, 2, Len(exponent)))

\* the inputs and credentials of the run do not pass the rules of validation: a
\* credential is absent, max_diff_chars is no integer >= 0, max_output_tokens is no
\* integer > 0, or temperature is no number of [0, 2]
InvalidConfiguration ==
    LET maxDiffCharsInput == OrDefault(getInput("max_diff_chars"), "2000")
        maxOutputTokensInput == OrDefault(getInput("max_output_tokens"), "400")
        temperatureInput == OrDefault(getInput("temperature"), "0.2")
    IN  \/ env.GITHUB_TOKEN = ""
        \/ env.X_BEARER_TOKEN = ""
        \/ ~IsInteger(maxDiffCharsInput)
        \/ parseInt(maxDiffCharsInput)[1] < 0
        \/ ~IsInteger(maxOutputTokensInput)
        \/ parseInt(maxOutputTokensInput)[1] <= 0
        \/ ~IsNumber(temperatureInput)
        \/ parseFloat(temperatureInput)[1].num < 0
        \/ parseFloat(temperatureInput)[1].num > 2 * parseFloat(temperatureInput)[1].den

\* C4: with a credential absent, a max_diff_chars that is no integer >= 0, a
\* max_output_tokens that is no integer > 0 or a temperature that is no number of
\* [0, 2], the run fails and calls neither the completion nor the publish service;
\* 0 for max_diff_chars and 0 and 2 for temperature pass, 0 for max_output_tokens
\* does not.
InvalidConfigurationIsFatal ==
    /\ InvalidConfiguration =>
         /\ pc # "done"
         /\ CallsOf({"complete", "publish"}) = {}
    /\ getInput("max_output_tokens") = "0" => pc \in {"start", "failed"}
    /\ ( /\ ~InvalidConfiguration
         /\ inputs.from # ""
         /\ getBooleanInput("include_start_commit") # None )
       => ~(pc = "failed" /\ calls = <<>>)

-----------------------------------------------------------------------------
(* Properties of the functions applied on their own *)

\* C5: with no limit or a limit <= 0 the content comes back unchanged and not
\* truncated; with a limit L > 0, truncated says whether the content is longer than
\* L, a content of at most L characters comes back unchanged, and a longer one as its
\* first L characters and the marker, at most L plus the marker's length long.
TruncateContract ==
    (pc = "idle" /\ ret # None) =>
        LET s == arg.content
            L == arg.limit
            r == ret[1]
        IN  IF L = None \/ L[1] <= 0
            THEN r.text = s /\ r.truncated = FALSE
            ELSE /\ r.truncated = (Len(s) > L[1])
                 /\ Len(s) <= L[1] => r.text = s
                 /\ Len(s) > L[1] =>
                        /\ SubSeq(r.text, 1, L[1]) = SubSeq(s, 1, L[1])
                        /\ SubSeq(r.text, L[1] + 1, Len(r.text)) = TruncationMarker(L[1])
                 /\ Len(r.text) <= L[1] + Len(TruncationMarker(L[1]))

\* a content one character longer than the limit has been truncated
TruncatedWitness ==
    /\ ret # None
    /\ arg.limit # None
    /\ arg.limit[1] > 0
    /\ Len(arg.content) = arg.limit[1] + 1
    /\ ret[1].truncated

\* the texts of the fragments that are present, in the order of the list
Present(fragments) ==
    LET kept == SelectSeq(fragments, LAMBDA f : f.present)
    IN  [k \in 1..Len(kept) |-> kept[k].text]

\* sub occurs in s
Contains(s, sub) ==
    \E i \in 1..(Len(s) - Len(sub) + 1) : SubSeq(s, i, i + Len(sub) - 1) = sub

\* C7: with a prompt override that is not empty, the prompt is the override, whatever
\* the commits, the range, the community, the tone, the hashtags, the call to action
\* and the extra instructions are (so two calls that differ in those alone agree).
OverrideIsVerbatim ==
    (pc = "idle" /\ ret # None /\ getInput("prompt") # "") =>
        /\ ret[1].prompt = getInput("prompt")
        /\ \A summaries \in {<<>>, <<"Commit: c9">>}, fromId \in {"c1", "c9"},
              tags \in {<<>>, <<"#z">>}, other \in {"", "else"} :
             buildPrompt([ customPrompt |-> getInput("prompt"), fromSha |-> fromId,
                           toSha |-> "c9", commitSummaries |-> summaries,
                           community |-> other, tone |-> other, hashtags |-> tags,
                           callToAction |-> other, extraInstructions |-> other ])
                 = ret[1].prompt

\* an override was returned while every other field was given
OverrideWitness ==
    /\ ret # None
    /\ inputs.prompt = "Write it."
    /\ ret[1].prompt = "Write it."
    /\ inputs.tone # ""
    /\ inputs.hashtags # ""
    /\ inputs.call_to_action # ""
    /\ inputs.extra_instructions # ""
    /\ inputs.community # ""
    /\ Len(ret[1].commitOrder) > 1

\* C8: with no override the prompt is the fragments a to i, each optional one there
\* exactly when its field is given, in that order whichever are there, joined by
\* blank lines; the summaries are one block for each collected commit, oldest first,
\* joined by the marker line.
PromptFragmentsInOrder ==
    (pc = "idle" /\ ret # None /\ getInput("prompt") = "") =>
        LET order == ret[1].commitOrder
            range == CommitsAfter(arg.fromSha, arg.toSha)
            blocks == [k \in 1..Len(order) |-> buildCommitSummary(order[k], 3, <<>>)]
            tags == IF inputs.hashtags = "a" THEN "#a"
                    ELSE IF inputs.hashtags = "a #b" THEN "#a #b" ELSE ""
            fragments ==
                << [present |-> TRUE, text |-> FixedInstruction],
                   [present |-> TRUE,
                    text |-> "Summarize " \o ToString(Len(order)) \o " commit(s) between "
                             \o arg.fromSha \o " and " \o arg.toSha
                             \o " with a focus on what users will notice."],
                   [present |-> inputs.community # "",
                    text |-> "This message will share with the \"" \o inputs.community
                             \o "\" community."],
                   [present |-> inputs.community = "",
                    text |-> "This message will post to the main timeline."],
                   [present |-> inputs.tone # "",
                    text |-> "Adopt a " \o inputs.tone \o " tone."],
                   [present |-> inputs.hashtags # "",
                    text |-> "Incorporate these hashtags: " \o tags],
                   [present |-> inputs.call_to_action # "",
                    text |-> "Finish with: " \o inputs.call_to_action],
                   [present |-> TRUE,
                    text |-> "Commit context:\n\n" \o Join(blocks, "\n\n---\n\n")],
                   [present |-> inputs.extra_instructions # "",
                    text |-> "Additional instructions: " \o inputs.extra_instructions],
                   [present |-> TRUE, text |-> ClosingDirective] >>
        IN  /\ ret[1].prompt = Join(Present(fragments), "\n\n")
            /\ order = (IF arg.includeStartCommit THEN <<arg.fromSha>> \o range ELSE range)
            /\ \A k \in 1..(Len(order) - 1) : IndexOf(order[k]) < IndexOf(order[k + 1])

\* a prompt was composed of two commits and with every optional field given
AllFragmentsWitness ==
    /\ ret # None
    /\ inputs.prompt = ""
    /\ inputs.tone # ""
    /\ inputs.hashtags # ""
    /\ inputs.call_to_action # ""
    /\ inputs.extra_instructions # ""
    /\ inputs.community # ""
    /\ "commitOrder" \in DOMAIN ret[1]
    /\ Len(ret[1].commitOrder) = 2
    /\ Contains(ret[1].prompt, "\n\n---\n\n")

\* the pieces of s between its separators from position i on: each longest run of
\* characters that are no separator, in the order of s
RECURSIVE PiecesFrom(_, _)
PiecesFrom(s, i) ==
    IF i > Len(s) THEN <<>>
    ELSE IF IsTagSeparator(Char(s, i)) THEN PiecesFrom(s, i + 1)
    ELSE LET last == CHOOSE j \in i..Len(s) :
                         /\ \A k \in i..j : ~IsTagSeparator(Char(s, k))
                         /\ j = Len(s) \/ IsTagSeparator(Char(s, j + 1))
         IN  <<SubSeq(s, i, last)>> \o PiecesFrom(s, last + 1)

SummarySections ==
    (pc = "idle" /\ ret # None /\ "commit" \in DOMAIN arg) =>
        LET c == repo[1]
            L == arg.maxDiffChars
            diff == DiffOfFiles(c.files, arg.diffPaths)
            preview == IF L > 0 /\ Len(diff) > L
                       THEN SubSeq(diff, 1, L) \o "\n\n[Diff truncated to the first "
                                \o ToString(L) \o " characters]"
                       ELSE diff
            sections ==
                << [present |-> TRUE, text |-> "Commit: " \o c.sha],
                   [present |-> TRUE, text |-> "Title: " \o Trim(c.subject)],
                   [present |-> Trim(c.body) # "", text |-> "Body:\n" \o Trim(c.body)],
                   [present |-> Trim(preview) # "", text |-> "Diff preview:\n" \o preview] >>
        IN  /\ ret[1] = Join(Present(sections), "\n\n")
            /\ StartsWith(ret[1], "Commit: " \o c.sha \o "\n\nTitle: ")

\* a commit with a body had its diff, longer than the limit, previewed truncated
TruncatedPreviewWitness ==
    /\ ret # None
    /\ "commit" \in DOMAIN arg
    /\ Trim(repo[1].body) # ""
    /\ arg.maxDiffChars = 2
    /\ arg.diffPaths = <<"src/app.js">>
    /\ Len(repo[1].files[1].diff) = 3
    /\ Contains(ret[1], "\n\nDiff preview:\n" \o SubSeq(repo[1].files[1].diff, 1, 2)
                            \o "\n\n[Diff truncated to the first 2 characters]")

====
